---- MODULE Spec2Model ----
(***************************************************************************)
(* Model of src/token.rs: the Token record, its 5-byte packed form, the    *)
(* classifier cascade (Token::new and the try_* probes) and the text       *)
(* locator (Token::get_string, Token::get_string_packed).                  *)
(*                                                                         *)
(* Three specifications share the module:                                  *)
(*   Spec          the text locator over a reader, a token vector, a file  *)
(*   SpecCodec     pack / unpack of the 40-bit packed struct               *)
(*   SpecClassify  Token::new and the twelve probes                        *)
(***************************************************************************)
EXTENDS Integers, Sequences, FiniteSets, TLC

VARIABLES
    source,      \* bytes of the File behind the BufReader
    tokens,      \* the Vec<Token> handed to get_string / get_string_packed
    cursor,      \* stream position of the BufReader
    ret,         \* the last locator call and its outcome
    input,       \* codec: the tokens to pack, or the raw buffer to unpack
    enc,         \* codec: the results of pack, in the order of the tokens
    dec,         \* codec: the last unpack and its result
    call,        \* classifier: the last call (function, loc, word)
    res          \* classifier: its outcome

vars == <<source, tokens, cursor, ret, input, enc, dec, call, res>>

locatorVars == <<source, tokens, cursor, ret>>
codecVars == <<input, enc, dec>>
classifyVars == <<call, res>>

None == [kind |-> "None"]

(***************************************************************************)
(* Bounds of the model.                                                    *)
(***************************************************************************)
MaxSourceLen == 2
MaxTokens == 3

(***************************************************************************)
(* TokenType: the enum, in declaration order (PrimitiveEnum_u8 numbers the *)
(* variants from 0 in that order).                                         *)
(***************************************************************************)
TokenType ==
    << "Function", "If",
       "OpenParen", "CloseParen", "OpenCurly", "CloseCurly", "OpenAngle", "CloseAngle",
       "DoubleQuote", "SingleQuote", "Backtick",
       "TypeSeperator", "Comma",
       "Plus", "Minus", "Star", "Slash",
       "Space", "Newline",
       "Unknown" >>

TokenTypes == {TokenType[i] : i \in 1..Len(TokenType)}

to_primitive(ty) == (CHOOSE i \in 1..Len(TokenType) : TokenType[i] = ty) - 1

from_primitive(n) ==
    IF n < Len(TokenType) THEN [kind |-> "Some", val |-> TokenType[n + 1]] ELSE None

Token(loc, ty) == [loc |-> loc, ty |-> ty]

(***************************************************************************)
(* Packed form: 40 bits, msb0; bits 0..32 = loc (msb endian), bits 32..40  *)
(* = the enum's primitive.                                                 *)
(***************************************************************************)
Ok(v) == [kind |-> "Ok", val |-> v]
Err(e) == [kind |-> "Err", err |-> e]

pack_loc(loc) ==
    << (loc \div 16777216) % 256, (loc \div 65536) % 256, (loc \div 256) % 256, loc % 256 >>

\* mutant: the variants numbered from 1
pack_ty_from_one(ty) == to_primitive(ty) + 1

pack_ty(ty) == to_primitive(ty)

\* mutant: the category in the leading byte, the loc after it
pack_ty_first(t) == Ok(<< pack_ty(t.ty) >> \o pack_loc(t.loc))

pack(t) == Ok(pack_loc(t.loc) \o << pack_ty(t.ty) >>)

\* mutant: the top byte of the loc dropped
unpack_loc_24(b) == b[2] * 65536 + b[3] * 256 + b[4]

unpack_loc(b) == b[1] * 16777216 + b[2] * 65536 + b[3] * 256 + b[4]

\* mutant: an undeclared primitive falls back to the last variant
unpack_ty_catch_all(n) ==
    IF n < Len(TokenType) THEN [kind |-> "Some", val |-> TokenType[n + 1]]
    ELSE [kind |-> "Some", val |-> "Unknown"]

unpack_ty(n) == from_primitive(n)

unpack(b) ==
    LET ty == unpack_ty(b[5])
    IN  IF ty.kind = "None" THEN Err("InvalidValue")
        ELSE Ok(Token(unpack_loc(b), ty.val))

unpack_from_slice(b) ==
    IF Len(b) # 5 THEN Err("BufferSizeMismatch") ELSE unpack(b)

(***************************************************************************)
(* Orderings: u32::cmp and the lexicographic Ord of [u8; 5].               *)
(***************************************************************************)
cmp(a, b) == IF a < b THEN "Less" ELSE IF a > b THEN "Greater" ELSE "Equal"

RECURSIVE cmp_bytes_from(_, _, _)
cmp_bytes_from(a, b, i) ==
    IF i > Len(a) THEN "Equal"
    ELSE IF a[i] # b[i] THEN cmp(a[i], b[i])
    ELSE cmp_bytes_from(a, b, i + 1)

cmp_bytes(a, b) == cmp_bytes_from(a, b, 1)

(***************************************************************************)
(* slice::binary_search_by over the orderings the comparator returns for   *)
(* each element of the slice.  The token vectors of this model are sorted  *)
(* with no loc repeated (the precondition of the search), where every      *)
(* implementation std has shipped returns the same result.                 *)
(***************************************************************************)
RECURSIVE binary_search_loop(_, _, _)
binary_search_loop(ords, left, right) ==
    IF left < right
    THEN LET mid == left + ((right - left) \div 2)
         IN  IF ords[mid + 1] = "Less" THEN binary_search_loop(ords, mid + 1, right)
             ELSE IF ords[mid + 1] = "Greater" THEN binary_search_loop(ords, left, mid)
             ELSE Ok(mid)
    ELSE Err(left)

binary_search_by(ords) == binary_search_loop(ords, 0, Len(ords))

(***************************************************************************)
(* The reader: seek, read_exact, read_to_end over the file's bytes, and    *)
(* String::from_utf8 (the well-formed byte sequences of UTF-8).            *)
(***************************************************************************)
\* mutant: SeekFrom::Current in place of SeekFrom::Start
seek_current(pos, at) == pos + at

seek(pos, at) == at

Max(a, b) == IF a > b THEN a ELSE b

read_exact(bytes, pos, len) ==
    IF pos + len <= Len(bytes)
    THEN [r |-> Ok(SubSeq(bytes, pos + 1, pos + len)), cursor |-> pos + len]
    ELSE [r |-> Err("UnexpectedEof"), cursor |-> Max(pos, Len(bytes))]

read_to_end(bytes, pos) ==
    [r |-> Ok(SubSeq(bytes, pos + 1, Len(bytes))), cursor |-> Max(pos, Len(bytes))]

IsCont(b, lo, hi) == b >= lo /\ b <= hi

RECURSIVE valid_utf8_from(_, _)
valid_utf8_from(b, i) ==
    LET n == Len(b) - i + 1
        c == b[i]
        tail(k, lo, hi) ==
            /\ n >= k
            /\ IsCont(b[i + 1], lo, hi)
            /\ \A j \in (i + 2)..(i + k - 1) : IsCont(b[j], 128, 191)
            /\ valid_utf8_from(b, i + k)
    IN  IF i > Len(b) THEN TRUE
        ELSE IF c <= 127 THEN valid_utf8_from(b, i + 1)
        ELSE IF c >= 194 /\ c <= 223 THEN tail(2, 128, 191)
        ELSE IF c = 224 THEN tail(3, 160, 191)
        ELSE IF (c >= 225 /\ c <= 236) \/ c = 238 \/ c = 239 THEN tail(3, 128, 191)
        ELSE IF c = 237 THEN tail(3, 128, 159)
        ELSE IF c = 240 THEN tail(4, 144, 191)
        ELSE IF c >= 241 /\ c <= 243 THEN tail(4, 128, 191)
        ELSE IF c = 244 THEN tail(4, 128, 143)
        ELSE FALSE

from_utf8(b) == IF valid_utf8_from(b, 1) THEN Ok(b) ELSE Err("FromUtf8Error")

(***************************************************************************)
(* Outcomes of a locator call: the String returned (as its bytes) or the   *)
(* panic that ends the call.                                               *)
(***************************************************************************)
Text(b) == [kind |-> "Text", text |-> b]
Panic(m) == [kind |-> "Panic", msg |-> m]

\* the part of get_string and get_string_packed after the search: `idx` is
\* the index found, `next` the element after it (None when there is none)
\* with its loc already extracted
read_span(self, next, bytes, pos) ==
    LET at == seek(pos, self.loc)
    IN  IF next.kind = "Some"
        THEN IF next.val < self.loc
             THEN [out |-> Panic("Overflow occurred while getting token length"),
                   cursor |-> at]
             ELSE LET rd == read_exact(bytes, at, next.val - self.loc)
                  IN  IF rd.r.kind = "Err"
                      THEN [out |-> Panic("read_exact: UnexpectedEof"), cursor |-> rd.cursor]
                      ELSE LET s == from_utf8(rd.r.val)
                           IN  [out |-> IF s.kind = "Ok" THEN Text(s.val)
                                        ELSE Panic("from_utf8: FromUtf8Error"),
                                cursor |-> rd.cursor]
        ELSE LET rd == read_to_end(bytes, at)
                 s == from_utf8(rd.r.val)
             IN  [out |-> IF s.kind = "Ok" THEN Text(s.val)
                          ELSE Panic("from_utf8: FromUtf8Error"),
                  cursor |-> rd.cursor]

\* mutant: the element at idx itself, not the one after it
get_at_idx(v, i) == IF i - 1 < Len(v) THEN [kind |-> "Some", val |-> v[i]] ELSE None

get(v, i) == IF i < Len(v) THEN [kind |-> "Some", val |-> v[i + 1]] ELSE None

get_string(self, toks, bytes, pos) ==
    LET found == binary_search_by([i \in 1..Len(toks) |-> cmp(toks[i].loc, self.loc)])
    IN  IF found.kind = "Err"
        THEN [out |-> Panic("Did not find token"), cursor |-> pos]
        ELSE LET next == get(toks, found.val + 1)
             IN  read_span(self,
                           IF next.kind = "Some"
                           THEN [kind |-> "Some", val |-> next.val.loc] ELSE None,
                           bytes, pos)

get_string_packed(self, packed, bytes, pos) ==
    LET me == pack(self)
    IN  IF me.kind = "Err"
        THEN [out |-> Panic("Could not pack self"), cursor |-> pos]
        ELSE
        LET found == binary_search_by(
                         [i \in 1..Len(packed) |-> cmp_bytes(packed[i], me.val)])
        IN  IF found.kind = "Err"
            THEN [out |-> Panic("Did not find token"), cursor |-> pos]
            ELSE LET next == get(packed, found.val + 1)
                     tok == IF next.kind = "Some" THEN unpack_from_slice(next.val)
                            ELSE None
                 IN  IF tok.kind = "Err"
                     THEN [out |-> Panic("unpack_from_slice"),
                           cursor |-> seek(pos, self.loc)]
                     ELSE read_span(self,
                                    IF tok.kind = "Ok"
                                    THEN [kind |-> "Some", val |-> tok.val.loc] ELSE None,
                                    bytes, pos)

\* the element-wise packed form of a Vec<Token>
pack_all(toks) == [i \in 1..Len(toks) |-> pack(toks[i]).val]

(***************************************************************************)
(* Spec: the text locator.  The caller owns the file, the token vector and *)
(* the reader; each step is one call of get_string or get_string_packed on *)
(* them, the packed call on the element-wise packed form of the vector.    *)
(* A call that panics unwinds to the caller, who may go on using the       *)
(* reader.                                                                 *)
(***************************************************************************)
SourceBytes == {102, 195, 169}     \* 'f', and the two bytes of U+00E9

LocatorTypes == {"Function", "Unknown"}

RECURSIVE SeqsUpTo(_, _)
SeqsUpTo(S, n) ==
    IF n = 0 THEN {<< >>}
    ELSE LET shorter == SeqsUpTo(S, n - 1)
         IN  shorter \cup {Append(s, x) : s \in {t \in shorter : Len(t) = n - 1}, x \in S}

Sources == SeqsUpTo(SourceBytes, MaxSourceLen)

\* locs range over every position of the longest file, its end included;
\* they lie past the end of the shorter files
Locs == 0..MaxSourceLen

LocatorTokens == {Token(l, ty) : l \in Locs, ty \in LocatorTypes}

StrictlyIncreasing(toks) ==
    \A i \in 1..(Len(toks) - 1) : toks[i].loc < toks[i + 1].loc

TokenVecs == {v \in SeqsUpTo(LocatorTokens, MaxTokens) : StrictlyIncreasing(v)}

NoCall == [fn |-> "none"]

IdleCodec == input = None /\ enc = << >> /\ dec = None
IdleClassify == call = NoCall /\ res = None
IdleLocator == source = << >> /\ tokens = << >> /\ cursor = 0 /\ ret = NoCall

Init ==
    /\ source \in Sources
    /\ tokens \in TokenVecs
    /\ cursor = 0
    /\ ret = NoCall
    /\ IdleCodec
    /\ IdleClassify

GetString(self) ==
    LET r == get_string(self, tokens, source, cursor)
    IN  /\ ret' = [fn |-> "get_string", self |-> self, before |-> cursor, out |-> r.out]
        /\ cursor' = r.cursor
        /\ UNCHANGED <<source, tokens, codecVars, classifyVars>>

GetStringPacked(self) ==
    LET r == get_string_packed(self, pack_all(tokens), source, cursor)
    IN  /\ ret' = [fn |-> "get_string_packed", self |-> self, before |-> cursor,
                   out |-> r.out]
        /\ cursor' = r.cursor
        /\ UNCHANGED <<source, tokens, codecVars, classifyVars>>

Next ==
    \/ \E self \in LocatorTokens : GetString(self)
    \/ \E self \in LocatorTokens : GetStringPacked(self)

Spec == Init /\ [][Next]_vars

(***************************************************************************)
(* Properties of the text locator (checked under Spec).                    *)
(***************************************************************************)
Min(a, b) == IF a < b THEN a ELSE b

\* the bytes source[lo, hi), cut at the end of the file
Bytes(lo, hi) == [k \in 1..(Min(hi, Len(source)) - lo) |-> source[lo + k]]

IsMember(t) == \E i \in 1..Len(tokens) : tokens[i] = t

IndexOf(t) == CHOOSE i \in 1..Len(tokens) : tokens[i] = t

IsLast(t) == IndexOf(t) = Len(tokens)

\* where the span of member t ends: the successor's loc, or the end of the file
SpanEnd(t) == IF IsLast(t) THEN Len(source) ELSE tokens[IndexOf(t) + 1].loc

SpanOf(t) == Bytes(t.loc, SpanEnd(t))

\* the span of member t lies inside the file and is well-formed UTF-8
Readable(t) ==
    /\ IsLast(t) \/ SpanEnd(t) <= Len(source)
    /\ valid_utf8_from(SpanOf(t), 1)

\* every loc of the vector is a position of the file (its end included)
OverSource(toks) == \A i \in 1..Len(toks) : toks[i].loc <= Len(source)

\* C1 as stated: for any source bytes and any token vector over them with
\* strictly increasing locs, get_string on a member returns exactly the bytes
\* from its loc to the successor's loc, or to the end of the file for the last.
C1_Original ==
    (/\ ret.fn = "get_string"
     /\ StrictlyIncreasing(tokens)
     /\ OverSource(tokens)
     /\ IsMember(ret.self)) => ret.out = Text(SpanOf(ret.self))

\* C1 (amended): get_string on a member of a vector with strictly increasing
\* locs returns exactly the bytes of its span when the span lies inside the
\* file and is well-formed UTF-8, and panics otherwise.
C1_SpanOfMember ==
    (ret.fn = "get_string" /\ StrictlyIncreasing(tokens) /\ IsMember(ret.self))
        => IF Readable(ret.self)
           THEN ret.out = Text(SpanOf(ret.self))
           ELSE ret.out.kind = "Panic"

\* get_string returned the non-empty span of a member that has a successor,
\* a span that stops short of the end of the file
C1_Witness ==
    /\ ret.fn = "get_string"
    /\ StrictlyIncreasing(tokens)
    /\ IsMember(ret.self)
    /\ ~IsLast(ret.self)
    /\ ret.out.kind = "Text"
    /\ Len(ret.out.text) > 0
    /\ Len(source) > SpanEnd(ret.self)

SameOutcome(a, b) ==
    \/ a.kind = "Text" /\ b.kind = "Text" /\ a.text = b.text
    \/ a.kind = "Panic" /\ b.kind = "Panic"

\* C2: get_string on the vector and get_string_packed on its element-wise
\* packed form, called one after the other for the same token, have the same
\* observable outcome: the same text, or both fail.
C2_Equivalent ==
    [][(/\ ret.fn = "get_string"
        /\ ret'.fn = "get_string_packed"
        /\ ret'.self = ret.self) => SameOutcome(ret.out, ret'.out)]_vars

\* C9: materializing a token that is not a member of the vector (no element
\* has its loc and its category) fails in both variants.
C9_NonMemberFails ==
    (ret.fn # "none" /\ ~IsMember(ret.self)) => ret.out.kind = "Panic"

\* every reader position an earlier call can leave behind
Cursors == 0..(MaxSourceLen + 1)

FreshOutcome(fn, self, pos) ==
    IF fn = "get_string" THEN get_string(self, tokens, source, pos).out
    ELSE get_string_packed(self, pack_all(tokens), source, pos).out

\* C10: the outcome of each call depends only on the token, the vector and
\* the file, not on the cursor left behind by earlier calls: it is the
\* outcome the same call has from every other cursor position.
C10_CursorIndependent ==
    ret.fn # "none" =>
        \A pos \in Cursors : ret.out = FreshOutcome(ret.fn, ret.self, pos)

\* a call that found the reader past its token returned a non-empty text
C10_Witness ==
    /\ ret.fn # "none"
    /\ ret.before > ret.self.loc
    /\ ret.out.kind = "Text"
    /\ Len(ret.out.text) > 0

(***************************************************************************)
(* SpecCodec: pack and unpack as pure functions.  The initial state draws  *)
(* the input, two tokens to pack or a raw 5-byte buffer to unpack, and the *)
(* steps apply pack to each token in turn, unpack to the bytes last        *)
(* packed, and unpack to the raw buffer.                                   *)
(***************************************************************************)
\* locs on both sides of every byte boundary of a u32, up to the largest
\* integer the model checker represents (2^31 - 1: all four bytes non-zero)
LocSamples ==
    {0, 1, 255, 256, 65535, 65536, 16777215, 16777216, 2147483647}

CodecTokens == {Token(l, ty) : l \in LocSamples, ty \in TokenTypes}

\* the leading four bytes of the raw buffers
RawPrefixes ==
    { << 0, 0, 0, 0 >>, << 0, 0, 0, 1 >>, << 0, 0, 1, 0 >>, << 0, 1, 0, 0 >>,
      << 1, 0, 0, 0 >>, << 0, 0, 0, 255 >>, << 0, 255, 0, 255 >>,
      << 18, 52, 86, 120 >>, << 127, 255, 255, 255 >> }

RawBuffers == {p \o << b >> : p \in RawPrefixes, b \in 0..255}

CodecInputs ==
    {[kind |-> "Tokens", toks |-> << t1, t2 >>] : t1 \in CodecTokens, t2 \in CodecTokens}
        \cup {[kind |-> "Raw", buf |-> b] : b \in RawBuffers}

InitCodec ==
    /\ input \in CodecInputs
    /\ enc = << >>
    /\ dec = None
    /\ IdleLocator
    /\ IdleClassify

Pack ==
    /\ input.kind = "Tokens"
    /\ Len(enc) < Len(input.toks)
    /\ enc' = Append(enc, pack(input.toks[Len(enc) + 1]))
    /\ UNCHANGED <<input, dec, locatorVars, classifyVars>>

Unpack ==
    /\ input.kind = "Tokens"
    /\ Len(enc) > 0
    /\ enc[Len(enc)].kind = "Ok"
    /\ dec' = [of |-> Len(enc), r |-> unpack(enc[Len(enc)].val)]
    /\ UNCHANGED <<input, enc, locatorVars, classifyVars>>

UnpackRaw ==
    /\ input.kind = "Raw"
    /\ dec' = [of |-> 0, r |-> unpack(input.buf)]
    /\ UNCHANGED <<input, enc, locatorVars, classifyVars>>

NextCodec == Pack \/ Unpack \/ UnpackRaw

SpecCodec == InitCodec /\ [][NextCodec]_vars

(***************************************************************************)
(* Properties of the packed form (checked under SpecCodec).                *)
(***************************************************************************)
\* C3: packing a token with any 32-bit loc and any category succeeds, and
\* unpacking the 5 bytes yields the same loc and category.
C3_RoundTrip ==
    /\ \A k \in 1..Len(enc) : enc[k].kind = "Ok" /\ Len(enc[k].val) = 5
    /\ (dec # None /\ dec.of > 0) =>
           /\ dec.r.kind = "Ok"
           /\ dec.r.val.loc = input.toks[dec.of].loc
           /\ dec.r.val.ty = input.toks[dec.of].ty

\* a token with all four loc bytes set and the last category was packed and
\* unpacked
C3_Witness ==
    /\ dec # None
    /\ dec.of = 2
    /\ input.toks[2] = Token(2147483647, "Unknown")
    /\ dec.r.kind = "Ok"

\* the place of a category in the declaration order, counted from 0
Ordinal(ty) == Cardinality({i \in 1..Len(TokenType) : \E j \in (i + 1)..Len(TokenType) : TokenType[j] = ty})

\* C4: the packed form is exactly 5 bytes, bytes 0..3 the loc in big-endian
\* order and byte 4 the category's ordinal in declaration order, from
\* 0 = Function to 19 = Unknown, 20 categories in all.
C4_Layout ==
    /\ Len(TokenType) = 20
    /\ \A k \in 1..Len(enc) :
           LET b == enc[k].val
               t == input.toks[k]
           IN  /\ enc[k].kind = "Ok"
               /\ DOMAIN b = 1..5
               /\ \A i \in 1..5 : b[i] \in 0..255
               /\ b[1] * (2 ^ 24) + b[2] * (2 ^ 16) + b[3] * (2 ^ 8) + b[4] = t.loc
               /\ b[5] = Ordinal(t.ty)
               /\ (t.ty = "Function" => b[5] = 0)
               /\ (t.ty = "Unknown" => b[5] = 19)

\* a token whose loc has distinct non-zero high and low bytes was packed
C4_Witness ==
    /\ Len(enc) > 0
    /\ input.toks[1] = Token(65535, "Newline")
    /\ enc[1] = Ok(<< 0, 0, 255, 255, 18 >>)

LexLess(a, b) ==
    \E i \in 1..5 : a[i] < b[i] /\ \A j \in 1..(i - 1) : a[j] = b[j]

\* C5: for two tokens with t1.loc < t2.loc, whatever their categories, the
\* packed form of t1 is less than that of t2 in byte-lexicographic order.
C5_OrderPreserved ==
    (Len(enc) = 2 /\ input.toks[1].loc < input.toks[2].loc)
        => LexLess(enc[1].val, enc[2].val)

\* the smaller loc has the larger low byte and the larger category ordinal
C5_Witness ==
    /\ Len(enc) = 2
    /\ input.toks[1] = Token(255, "Unknown")
    /\ input.toks[2] = Token(256, "Function")

\* C6: unpacking a 5-byte buffer whose last byte is no declared ordinal
\* (20..255) fails, whatever the first four bytes; no token is returned.
C6_BadOrdinalFails ==
    (dec # None /\ dec.of = 0 /\ input.buf[5] >= 20) => dec.r.kind = "Err"

\* the buffer of scenario 3, last byte 255, was unpacked
C6_Witness ==
    /\ dec # None
    /\ dec.of = 0
    /\ input.buf[5] = 255
    /\ input.buf[1] = 127
    /\ dec.r = Err("InvalidValue")

(***************************************************************************)
(* The classifier: the six probes (a match on the whole word), their       *)
(* _packed variants, and Token::new, the cascade over the probes.  A word  *)
(* is the sequence of its UTF-8 bytes; the comment beside each names it.   *)
(***************************************************************************)
Some(v) == [kind |-> "Some", val |-> v]

try_keyword(loc, word) ==
    CASE word = << 102, 117, 110 >> -> Some(Token(loc, "Function")) \* [fun]
      [] word = << 105, 102 >> -> Some(Token(loc, "If"))       \* [if]
      [] OTHER -> None

\* mutant: "<" and ">" exchanged
try_paren_swapped(loc, word) ==
    CASE word = << 40 >> -> Some(Token(loc, "OpenParen"))      \* [(]
      [] word = << 41 >> -> Some(Token(loc, "CloseParen"))     \* [)]
      [] word = << 60 >> -> Some(Token(loc, "CloseAngle"))     \* [<]
      [] word = << 62 >> -> Some(Token(loc, "OpenAngle"))      \* [>]
      [] word = << 123 >> -> Some(Token(loc, "OpenCurly"))     \* [{]
      [] word = << 125 >> -> Some(Token(loc, "CloseCurly"))    \* [}]
      [] OTHER -> None

try_paren(loc, word) ==
    CASE word = << 40 >> -> Some(Token(loc, "OpenParen"))      \* [(]
      [] word = << 41 >> -> Some(Token(loc, "CloseParen"))     \* [)]
      [] word = << 60 >> -> Some(Token(loc, "OpenAngle"))      \* [<]
      [] word = << 62 >> -> Some(Token(loc, "CloseAngle"))     \* [>]
      [] word = << 123 >> -> Some(Token(loc, "OpenCurly"))     \* [{]
      [] word = << 125 >> -> Some(Token(loc, "CloseCurly"))    \* [}]
      [] OTHER -> None

try_operator(loc, word) ==
    CASE word = << 43 >> -> Some(Token(loc, "Plus"))           \* [+]
      [] word = << 45 >> -> Some(Token(loc, "Minus"))          \* [-]
      [] word = << 42 >> -> Some(Token(loc, "Star"))           \* [*]
      [] word = << 47 >> -> Some(Token(loc, "Slash"))          \* [/]
      [] OTHER -> None

try_seperator(loc, word) ==
    CASE word = << 58 >> -> Some(Token(loc, "TypeSeperator"))  \* [:]
      [] word = << 44 >> -> Some(Token(loc, "Comma"))          \* [,]
      [] OTHER -> None

try_quote(loc, word) ==
    CASE word = << 34 >> -> Some(Token(loc, "DoubleQuote"))    \* ["]
      [] word = << 39 >> -> Some(Token(loc, "SingleQuote"))    \* [']
      [] word = << 96 >> -> Some(Token(loc, "Backtick"))       \* [`]
      [] OTHER -> None

try_whitespace(loc, word) ==
    CASE word = << 32 >> -> Some(Token(loc, "Space"))          \* [ ]
      [] word = << 10 >> -> Some(Token(loc, "Newline"))        \* [\n]
      [] word = << 13, 10 >> -> Some(Token(loc, "Newline"))    \* [\r\n]
      [] OTHER -> None

\* Option::ok_or(NoMatch)?.pack()? wrapped in Ok
packed_or_no_match(probe) ==
    IF probe.kind = "None" THEN Err("NoMatch")
    ELSE LET p == pack(probe.val)
         IN  IF p.kind = "Err" THEN Err("PackingError") ELSE Ok(p.val)

try_keyword_packed(loc, word) == packed_or_no_match(try_keyword(loc, word))
try_paren_packed(loc, word) == packed_or_no_match(try_paren(loc, word))
try_operator_packed(loc, word) == packed_or_no_match(try_operator(loc, word))
try_seperator_packed(loc, word) == packed_or_no_match(try_seperator(loc, word))
try_quote_packed(loc, word) == packed_or_no_match(try_quote(loc, word))
try_whitespace_packed(loc, word) == packed_or_no_match(try_whitespace(loc, word))

or(a, b) == IF a.kind = "Some" THEN a ELSE b

unwrap_or(a, default) == IF a.kind = "Some" THEN a.val ELSE default

\* mutant: the whitespace probe left out of the cascade
new_without_whitespace(loc, word) ==
    unwrap_or(
        or(or(or(or(try_keyword(loc, word),
                    try_paren(loc, word)),
                 try_operator(loc, word)),
              try_seperator(loc, word)),
           try_quote(loc, word)),
        Token(loc, "Unknown"))

new(loc, word) ==
    unwrap_or(
        or(or(or(or(or(try_keyword(loc, word),
                       try_paren(loc, word)),
                    try_operator(loc, word)),
                 try_seperator(loc, word)),
              try_whitespace(loc, word)),
           try_quote(loc, word)),
        Token(loc, "Unknown"))

(***************************************************************************)
(* SpecClassify: each step is one call of Token::new or of a probe on a    *)
(* loc and a word the scanner isolated.                                    *)
(***************************************************************************)
\* the twenty literals the probes name, and words none of them names
\* (each between brackets in the comment beside it)
Words ==
    {
      << 102, 117, 110 >>,     \* [fun]
      << 105, 102 >>,          \* [if]
      << 40 >>,                \* [(]
      << 41 >>,                \* [)]
      << 60 >>,                \* [<]
      << 62 >>,                \* [>]
      << 123 >>,               \* [{]
      << 125 >>,               \* [}]
      << 43 >>,                \* [+]
      << 45 >>,                \* [-]
      << 42 >>,                \* [*]
      << 47 >>,                \* [/]
      << 58 >>,                \* [:]
      << 44 >>,                \* [,]
      << 34 >>,                \* ["]
      << 39 >>,                \* [']
      << 96 >>,                \* [`]
      << 32 >>,                \* [ ]
      << 10 >>,                \* [\n]
      << 13, 10 >>             \* [\r\n]
    } \cup {
      << >>,                   \* []
      << 120 >>,               \* [x]
      << 102, 110 >>,          \* [fn]
      << 70, 117, 110 >>,      \* [Fun]
      << 102, 117, 110, 32 >>, \* [fun ]
      << 102, 117, 110, 115 >>, \* [funs]
      << 105, 102, 102 >>,     \* [iff]
      << 73, 102 >>,           \* [If]
      << 40, 40 >>,            \* [((]
      << 40, 41 >>,            \* [()]
      << 91 >>,                \* [[]
      << 93 >>,                \* []]
      << 60, 61 >>,            \* [<=]
      << 47, 47 >>,            \* [//]
      << 47, 42 >>,            \* [/*]
      << 61 >>,                \* [=]
      << 59 >>,                \* [;]
      << 58, 58 >>,            \* [::]
      << 34, 34 >>,            \* [""]
      << 32, 32 >>,            \* [  ]
      << 9 >>,                 \* [\t]
      << 13 >>,                \* [\r]
      << 10, 13 >>,            \* [\n\r]
      << 10, 10 >>,            \* [\n\n]
      << 49 >>,                \* [1]
      << 92 >>                 \* [\\]
    }

InitClassify ==
    /\ call = NoCall
    /\ res = None
    /\ IdleLocator
    /\ IdleCodec

Call(fn, loc, word) == [fn |-> fn, loc |-> loc, word |-> word]

New(loc, word) ==
    /\ call' = Call("new", loc, word)
    /\ res' = [kind |-> "Token", val |-> new(loc, word)]
    /\ UNCHANGED <<locatorVars, codecVars>>

TryKeyword(loc, word) ==
    /\ call' = Call("try_keyword", loc, word)
    /\ res' = try_keyword(loc, word)
    /\ UNCHANGED <<locatorVars, codecVars>>

TryParen(loc, word) ==
    /\ call' = Call("try_paren", loc, word)
    /\ res' = try_paren(loc, word)
    /\ UNCHANGED <<locatorVars, codecVars>>

TryOperator(loc, word) ==
    /\ call' = Call("try_operator", loc, word)
    /\ res' = try_operator(loc, word)
    /\ UNCHANGED <<locatorVars, codecVars>>

TrySeperator(loc, word) ==
    /\ call' = Call("try_seperator", loc, word)
    /\ res' = try_seperator(loc, word)
    /\ UNCHANGED <<locatorVars, codecVars>>

TryQuote(loc, word) ==
    /\ call' = Call("try_quote", loc, word)
    /\ res' = try_quote(loc, word)
    /\ UNCHANGED <<locatorVars, codecVars>>

TryWhitespace(loc, word) ==
    /\ call' = Call("try_whitespace", loc, word)
    /\ res' = try_whitespace(loc, word)
    /\ UNCHANGED <<locatorVars, codecVars>>

TryKeywordPacked(loc, word) ==
    /\ call' = Call("try_keyword_packed", loc, word)
    /\ res' = try_keyword_packed(loc, word)
    /\ UNCHANGED <<locatorVars, codecVars>>

TryParenPacked(loc, word) ==
    /\ call' = Call("try_paren_packed", loc, word)
    /\ res' = try_paren_packed(loc, word)
    /\ UNCHANGED <<locatorVars, codecVars>>

TryOperatorPacked(loc, word) ==
    /\ call' = Call("try_operator_packed", loc, word)
    /\ res' = try_operator_packed(loc, word)
    /\ UNCHANGED <<locatorVars, codecVars>>

TrySeperatorPacked(loc, word) ==
    /\ call' = Call("try_seperator_packed", loc, word)
    /\ res' = try_seperator_packed(loc, word)
    /\ UNCHANGED <<locatorVars, codecVars>>

TryQuotePacked(loc, word) ==
    /\ call' = Call("try_quote_packed", loc, word)
    /\ res' = try_quote_packed(loc, word)
    /\ UNCHANGED <<locatorVars, codecVars>>

TryWhitespacePacked(loc, word) ==
    /\ call' = Call("try_whitespace_packed", loc, word)
    /\ res' = try_whitespace_packed(loc, word)
    /\ UNCHANGED <<locatorVars, codecVars>>

\* the locs of scenario 1, and the largest
ClassifyLocs == {0, 10, 20, 2147483647}

NextClassify ==
    \E loc \in ClassifyLocs, word \in Words :
        \/ New(loc, word)
        \/ TryKeyword(loc, word)
        \/ TryParen(loc, word)
        \/ TryOperator(loc, word)
        \/ TrySeperator(loc, word)
        \/ TryQuote(loc, word)
        \/ TryWhitespace(loc, word)
        \/ TryKeywordPacked(loc, word)
        \/ TryParenPacked(loc, word)
        \/ TryOperatorPacked(loc, word)
        \/ TrySeperatorPacked(loc, word)
        \/ TryQuotePacked(loc, word)
        \/ TryWhitespacePacked(loc, word)

SpecClassify == InitClassify /\ [][NextClassify]_vars

(***************************************************************************)
(* Properties of the classifier (checked under SpecClassify).              *)
(***************************************************************************)
\* the matchers in the priority order of the cascade
Matchers == << "keyword", "bracket", "operator", "separator", "whitespace", "quote" >>

Probe(group, loc, word) ==
    CASE group = "keyword" -> try_keyword(loc, word)
      [] group = "bracket" -> try_paren(loc, word)
      [] group = "operator" -> try_operator(loc, word)
      [] group = "separator" -> try_seperator(loc, word)
      [] group = "whitespace" -> try_whitespace(loc, word)
      [] group = "quote" -> try_quote(loc, word)

\* the category the first recognizing matcher gives, Unknown when none does
FirstMatch(loc, word) ==
    LET hits == {i \in 1..Len(Matchers) : Probe(Matchers[i], loc, word).kind = "Some"}
    IN  IF hits = {} THEN "Unknown"
        ELSE LET first == CHOOSE i \in hits : \A j \in hits : i <= j
             IN  Probe(Matchers[first], loc, word).val.ty

\* C7: Token::new returns one token for every loc and word and never fails;
\* the token carries the loc unchanged and the category of the first matcher
\* that recognizes the word in the order keyword, bracket, operator,
\* separator, whitespace, quote, or Unknown when none does.
C7_NewTotal ==
    call.fn = "new" =>
        /\ res.kind = "Token"
        /\ res.val.loc = call.loc
        /\ res.val.ty = FirstMatch(call.loc, call.word)
        /\ res.val.ty \in TokenTypes

\* new classified "\r\n" at loc 20 as Newline (scenario 1)
C7_Witness ==
    /\ call = Call("new", 20, << 13, 10 >>)
    /\ res.val = Token(20, "Newline")

\* the literal-to-category table: group, literal, category
LiteralTable ==
    { << "keyword", << 102, 117, 110 >>, "Function" >>,       \* [fun]
      << "keyword", << 105, 102 >>, "If" >>,                  \* [if]
      << "bracket", << 40 >>, "OpenParen" >>,                 \* [(]
      << "bracket", << 41 >>, "CloseParen" >>,                \* [)]
      << "bracket", << 60 >>, "OpenAngle" >>,                 \* [<]
      << "bracket", << 62 >>, "CloseAngle" >>,                \* [>]
      << "bracket", << 123 >>, "OpenCurly" >>,                \* [{]
      << "bracket", << 125 >>, "CloseCurly" >>,               \* [}]
      << "operator", << 43 >>, "Plus" >>,                     \* [+]
      << "operator", << 45 >>, "Minus" >>,                    \* [-]
      << "operator", << 42 >>, "Star" >>,                     \* [*]
      << "operator", << 47 >>, "Slash" >>,                    \* [/]
      << "separator", << 58 >>, "TypeSeperator" >>,           \* [:]
      << "separator", << 44 >>, "Comma" >>,                   \* [,]
      << "quote", << 34 >>, "DoubleQuote" >>,                 \* ["]
      << "quote", << 39 >>, "SingleQuote" >>,                 \* [']
      << "quote", << 96 >>, "Backtick" >>,                    \* [`]
      << "whitespace", << 32 >>, "Space" >>,                  \* [ ]
      << "whitespace", << 10 >>, "Newline" >>,                \* [\n]
      << "whitespace", << 13, 10 >>, "Newline" >> }           \* [\r\n]

\* the group each probe tests, by the probe's name and its _packed variant's
GroupOf(fn) ==
    CASE fn \in {"try_keyword", "try_keyword_packed"} -> "keyword"
      [] fn \in {"try_paren", "try_paren_packed"} -> "bracket"
      [] fn \in {"try_operator", "try_operator_packed"} -> "operator"
      [] fn \in {"try_seperator", "try_seperator_packed"} -> "separator"
      [] fn \in {"try_quote", "try_quote_packed"} -> "quote"
      [] fn \in {"try_whitespace", "try_whitespace_packed"} -> "whitespace"

PackedProbes ==
    {"try_keyword_packed", "try_paren_packed", "try_operator_packed",
     "try_seperator_packed", "try_quote_packed", "try_whitespace_packed"}

Listed(fn, word) == {e \in LiteralTable : e[1] = GroupOf(fn) /\ e[2] = word}

\* C8: each probe returns, for a literal the table lists for its group, the
\* listed category with the given loc (the _packed variant: its 5 bytes), and
\* for every other literal signals no-match (None, or NoMatch for _packed).
C8_ProbeCorrect ==
    (call.fn # "none" /\ call.fn # "new") =>
        LET rows == Listed(call.fn, call.word)
        IN  IF rows = {}
            THEN res = (IF call.fn \in PackedProbes THEN Err("NoMatch") ELSE None)
            ELSE \A e \in rows :
                    IF call.fn \in PackedProbes
                    THEN /\ res.kind = "Ok"
                         /\ unpack(res.val) = Ok(Token(call.loc, e[3]))
                    ELSE res = Some(Token(call.loc, e[3]))

\* the bracket probe's _packed variant matched ">" at loc 10
C8_Witness ==
    /\ call = Call("try_paren_packed", 10, << 62 >>)
    /\ res = Ok(<< 0, 0, 0, 10, 7 >>)

====
